---- MODULE Spec2Model ----
(***************************************************************************)
(* ARM64 hardware-intrinsic code generation                                *)
(* (src/coreclr/src/jit/hwintrinsiccodegenarm64.cpp).                      *)
(*                                                                         *)
(* The model has two phases.  In the first, CodeGen::genHWIntrinsic runs   *)
(* on one register-allocated intrinsic node and appends instructions and   *)
(* label definitions to the emitter's stream; the HWIntrinsicImmOpHelper   *)
(* for-loop is unrolled into its steps (EmitBegin, Done, the case body,    *)
(* EmitCaseEnd).  In the second, the emitted stream is executed by a small *)
(* ARM64 control-flow interpreter with a run-time value in the immediate   *)
(* register, so that what the dispatch code does can be observed.          *)
(*                                                                         *)
(* assert() is modelled as in a checked (DEBUG) build of the JIT: a failed *)
(* assertion halts code generation at that point.                          *)
(***************************************************************************)
EXTENDS Integers, Sequences, FiniteSets

\* ---------------------------------------------------------------- bounds

\* Physical registers an operand or the target may be allocated to: 0..NumRegs-1.
NumRegs == 3

\* Largest immediate upper bound the lookupImmUpperBound oracle returns here.
MaxUpperBound == 3

\* ------------------------------------------------------------- constants

REG_NA == -1

\* The null BasicBlock* of endLabel(nullptr), nonZeroLabel(nullptr).
nullptr == 0

\* Bytes of one ARM64 instruction ("an arm64 instruction is 4 bytes").
InsSize == 4

Regs == 0 .. (NumRegs - 1)

\* ---------------------------------------------------------- type oracles

BaseTypes == {"TYP_UBYTE", "TYP_SHORT", "TYP_INT", "TYP_FLOAT", "TYP_DOUBLE"}

genTypeSize(t) ==
    CASE t = "TYP_UBYTE" -> 1
      [] t = "TYP_SHORT" -> 2
      [] t = "TYP_INT" -> 4
      [] t = "TYP_FLOAT" -> 4
      [] t = "TYP_LONG" -> 8
      [] t = "TYP_DOUBLE" -> 8

varTypeIsFloating(t) == t \in {"TYP_FLOAT", "TYP_DOUBLE"}

emitTypeSize(t) == genTypeSize(t)

\* Small integer types are widened to 4 bytes.
emitActualTypeSize(t) == IF genTypeSize(t) < 4 THEN 4 ELSE genTypeSize(t)

\* The SIMD arrangement for a vector of `size` bytes of elements of type t.
genGetSimdInsOpt(size, t) ==
    LET e == genTypeSize(t) IN
    CASE size = 8 /\ e = 1 -> "INS_OPTS_8B"
      [] size = 8 /\ e = 2 -> "INS_OPTS_4H"
      [] size = 8 /\ e = 4 -> "INS_OPTS_2S"
      [] size = 8 /\ e = 8 -> "INS_OPTS_1D"
      [] size = 16 /\ e = 1 -> "INS_OPTS_16B"
      [] size = 16 /\ e = 2 -> "INS_OPTS_8H"
      [] size = 16 /\ e = 4 -> "INS_OPTS_4S"
      [] size = 16 /\ e = 8 -> "INS_OPTS_2D"

\* -------------------------------------------------------- intrinsic ids

ImmOpIds == {"NI_AdvSimd_Extract", "NI_AdvSimd_ExtractVector64",
             "NI_AdvSimd_ExtractVector128", "NI_AdvSimd_Insert"}

CrcIds == {"NI_Crc32_ComputeCrc32", "NI_Crc32_ComputeCrc32C",
           "NI_Crc32_Arm64_ComputeCrc32", "NI_Crc32_Arm64_ComputeCrc32C"}

\* One representative of each family of case labels that share a body.
ReversedIds == {"NI_AdvSimd_CompareLessThan", "NI_AdvSimd_AbsoluteCompareLessThan"}

FmaIds == {"NI_AdvSimd_FusedMultiplyAddScalar"}

CreateIds == {"NI_Vector64_CreateScalarUnsafe", "NI_Vector128_CreateScalarUnsafe"}

ZeroIds == {"NI_Vector64_get_Zero", "NI_Vector128_get_Zero"}

\* HWIntrinsicInfo::lookupIns: the opcode the intrinsic table gives the id.
\* An id the table does not know has INS_invalid.
lookupIns(id, t) ==
    CASE id = "TableDriven" -> "INS_op"
      [] id = "NI_AdvSimd_BitwiseSelect" -> "INS_bsl"
      [] id \in CrcIds -> "INS_crc32"
      [] id \in ReversedIds -> "INS_cmgt"
      [] id \in FmaIds -> "INS_fmadd"
      [] id = "NI_AdvSimd_Store" -> "INS_st1"
      [] id = "NI_AdvSimd_Extract" -> IF varTypeIsFloating(t) THEN "INS_dup" ELSE "INS_umov"
      [] id \in {"NI_AdvSimd_ExtractVector64", "NI_AdvSimd_ExtractVector128"} -> "INS_ext"
      [] id = "NI_AdvSimd_Insert" -> "INS_ins"
      [] id \in CreateIds -> IF varTypeIsFloating(t) THEN "INS_fmov" ELSE "INS_ins"
      [] id \in ZeroIds -> "INS_movi"
      [] id = "NI_Unlisted" -> "INS_nop"
      [] OTHER -> "INS_invalid"

\* ------------------------------------------------------- emitted stream

\* One instruction handed to the emitter: opcode, emitAttr (bytes), register
\* operands in emission order, immediate (-1: none), label (nullptr: none), insOpts.
Ins(ins, attr, regs, imm, lbl, opt) ==
    [k |-> "ins", ins |-> ins, attr |-> attr, regs |-> regs, imm |-> imm,
     lbl |-> lbl, opt |-> opt]

\* genDefineInlineTempLabel(lbl): the label is bound to the current position.
LabelDef(lbl) ==
    [k |-> "label", ins |-> "", attr |-> 0, regs |-> <<>>, imm |-> -1,
     lbl |-> lbl, opt |-> "INS_OPTS_NONE"]

emitIns_R_R(ins, attr, r1, r2, opt) == Ins(ins, attr, <<r1, r2>>, -1, nullptr, opt)

emitIns_R_R_R(ins, attr, r1, r2, r3, opt) == Ins(ins, attr, <<r1, r2, r3>>, -1, nullptr, opt)

emitIns_R_R_R_R(ins, attr, r1, r2, r3, r4) ==
    Ins(ins, attr, <<r1, r2, r3, r4>>, -1, nullptr, "INS_OPTS_NONE")

emitIns_R_I(ins, attr, r1, imm, opt) == Ins(ins, attr, <<r1>>, imm, nullptr, opt)

emitIns_R_F(ins, attr, r1, dataValue, opt) == Ins(ins, attr, <<r1>>, dataValue, nullptr, opt)

emitIns_R_R_I(ins, attr, r1, r2, imm, opt) == Ins(ins, attr, <<r1, r2>>, imm, nullptr, opt)

\* Two immediates (destination lane imm1, source lane imm2).  The only call
\* site passes imm2 = 0, so the record keeps imm1.
emitIns_R_R_I_I(ins, attr, r1, r2, imm1, imm2, opt) ==
    Ins(ins, attr, <<r1, r2>>, imm1, nullptr, opt)

emitIns_R_R_R_I(ins, attr, r1, r2, r3, imm, opt) == Ins(ins, attr, <<r1, r2, r3>>, imm, nullptr, opt)

emitIns_J_R(ins, attr, lbl, r1) == Ins(ins, attr, <<r1>>, -1, lbl, "INS_OPTS_NONE")

emitIns_R_L(ins, attr, lbl, r1) == Ins(ins, attr, <<r1>>, -1, lbl, "INS_OPTS_NONE")

emitIns_R(ins, attr, r1) == Ins(ins, attr, <<r1>>, -1, nullptr, "INS_OPTS_NONE")

emitIns_J(ins, lbl) == Ins(ins, 0, <<>>, -1, lbl, "INS_OPTS_NONE")

RECURSIVE Instructions(_)
\* The machine instructions of a stream, label definitions dropped.
Instructions(s) ==
    IF s = <<>> THEN <<>>
    ELSE IF Head(s).k = "ins" THEN <<Head(s)>> \o Instructions(Tail(s))
    ELSE Instructions(Tail(s))

\* Position in s of the definition of label lbl (0: not defined).
LabelPos(s, lbl) ==
    LET P == {i \in 1 .. Len(s) : s[i].k = "label" /\ s[i].lbl = lbl} IN
    IF P = {} THEN 0 ELSE CHOOSE i \in P : \A j \in P : i <= j

\* Byte address a label is bound to: every instruction before it takes InsSize bytes.
LabelAddr(s, lbl) ==
    InsSize * Len(Instructions(SubSeq(s, 1, LabelPos(s, lbl))))

\* ------------------------------------------------------------ the node

\* A register-allocated GenTreeHWIntrinsic with what the oracles say of it.
\*   ops            GetRegNum() of each operand (REG_NA for a contained one)
\*   immContained   the immediate operand isContainedIntOrIImmed()
\*   immConVal      its IconValue() when contained
\*   upperBound     HWIntrinsicInfo::lookupImmUpperBound(id, simdSize, baseType)
\*   multiIns       HWIntrinsicInfo::GeneratesMultipleIns(id)
\*   fltImmed       the data operand isContainedFltOrDblImmed()
\*   intImmed       the data operand isContainedIntOrIImmed()
\*   tempReg        the internal register GetSingleTempReg() hands out
MkNode(id, cat, t, simd, target, ops, rmw, td, ic, c, ub, mi, fi, ii) ==
    [id |-> id, category |-> cat, baseType |-> t, gtSIMDSize |-> simd,
     numOperands |-> Len(ops), targetReg |-> target, ops |-> ops,
     isRMW |-> rmw, tableDriven |-> td, immContained |-> ic, immConVal |-> c,
     upperBound |-> ub, multiIns |-> mi, fltImmed |-> fi, intImmed |-> ii,
     dataValue |-> 1, tempReg |-> NumRegs]

\* Operand register tuples of length k.
OpRegs(k) == [1 .. k -> Regs]

\* Simple nodes have no immediate operand.
Plain(id, cat, t, simd, target, ops, rmw, td) ==
    MkNode(id, cat, t, simd, target, ops, rmw, td, FALSE, 0, 0, FALSE, FALSE, FALSE)

TableDrivenNodes ==
    {Plain("TableDriven", cat, t, simd, target, ops, rmw, TRUE) :
        cat \in {"HW_Category_SimpleSIMD", "HW_Category_SIMDScalar"},
        t \in {"TYP_INT", "TYP_DOUBLE"}, simd \in {8, 16}, target \in Regs,
        ops \in OpRegs(0) \cup OpRegs(1) \cup OpRegs(2) \cup OpRegs(3)
                \cup {<<0, 0, 0, 0>>},
        rmw \in BOOLEAN}

BitwiseSelectNodes ==
    {Plain("NI_AdvSimd_BitwiseSelect", "HW_Category_SimpleSIMD", "TYP_UBYTE", simd,
           target, ops, rmw, FALSE) :
        simd \in {8, 16}, target \in Regs, ops \in OpRegs(3), rmw \in BOOLEAN}

CrcNodes ==
    {Plain(id, "HW_Category_Scalar", t, 0, target, ops, FALSE, FALSE) :
        id \in CrcIds, t \in {"TYP_INT", "TYP_LONG"}, target \in Regs, ops \in OpRegs(2)}

ReversedNodes ==
    {Plain(id, "HW_Category_SimpleSIMD", "TYP_FLOAT", 16, target, ops, FALSE, FALSE) :
        id \in ReversedIds, target \in Regs, ops \in OpRegs(2)}

FmaNodes ==
    {Plain(id, cat, "TYP_DOUBLE", 8, target, ops, FALSE, FALSE) :
        id \in FmaIds, cat \in {"HW_Category_SIMDScalar", "HW_Category_SimpleSIMD",
                                "HW_Category_Special"},
        target \in Regs, ops \in OpRegs(3)}

StoreNodes ==
    {Plain("NI_AdvSimd_Store", "HW_Category_MemoryStore", "TYP_INT", 16, REG_NA, ops,
           FALSE, FALSE) : ops \in OpRegs(2)}

\* The data operand is a contained float, a contained integer, or in a register.
CreateNodes ==
    {MkNode(id, "HW_Category_SimpleSIMD", t, IF id = "NI_Vector64_CreateScalarUnsafe" THEN 8 ELSE 16,
            target, <<IF fi \/ ii THEN REG_NA ELSE r>>, FALSE, FALSE, FALSE, 0, 0, FALSE, fi, ii) :
        id \in CreateIds, t \in {"TYP_INT", "TYP_FLOAT"}, target \in Regs, r \in Regs,
        fi \in BOOLEAN, ii \in BOOLEAN}

ZeroNodes ==
    {Plain(id, "HW_Category_Helper", t, IF id = "NI_Vector64_get_Zero" THEN 8 ELSE 16,
           target, <<>>, FALSE, FALSE) :
        id \in ZeroIds, t \in {"TYP_UBYTE", "TYP_DOUBLE"}, target \in Regs}

\* Ids genHWIntrinsic has no case for: one the table has no opcode for, one it has.
UnhandledNodes ==
    {Plain(id, "HW_Category_SimpleSIMD", "TYP_INT", 16, target, ops, FALSE, FALSE) :
        id \in {"NI_Illegal", "NI_Unlisted"}, target \in Regs, ops \in OpRegs(1)}

\* Registers the immediate operand may be in.  It is a general-purpose
\* register; its number is only ever copied into the dispatch code.
ImmRegs == {0, 1}

\* What the immediate operand can be: a contained constant c (its register is
\* REG_NA), or a value in register r with the oracle's upper bound ub; mi is
\* GeneratesMultipleIns, which is read for the latter only.
ImmChoices ==
    {[ic |-> TRUE, c |-> c, r |-> REG_NA, ub |-> 0, mi |-> FALSE] :
        c \in 0 .. (MaxUpperBound - 1)}
    \cup {[ic |-> FALSE, c |-> 0, r |-> r, ub |-> ub, mi |-> mi] :
        r \in ImmRegs, ub \in 1 .. MaxUpperBound, mi \in BOOLEAN}

ExtractNodes ==
    {MkNode("NI_AdvSimd_Extract", "HW_Category_IMM", t, 16, target, <<op1, i.r>>, FALSE,
            FALSE, i.ic, i.c, i.ub, i.mi, FALSE, FALSE) :
        t \in {"TYP_INT", "TYP_FLOAT"}, target \in Regs, op1 \in Regs, i \in ImmChoices}

ExtractVectorNodes ==
    {MkNode(id, "HW_Category_IMM", t, IF id = "NI_AdvSimd_ExtractVector64" THEN 8 ELSE 16,
            target, <<op[1], op[2], i.r>>, FALSE, FALSE, i.ic, i.c, i.ub, i.mi, FALSE, FALSE) :
        id \in {"NI_AdvSimd_ExtractVector64", "NI_AdvSimd_ExtractVector128"},
        t \in {"TYP_UBYTE", "TYP_SHORT", "TYP_DOUBLE"},
        target \in Regs, op \in OpRegs(2), i \in ImmChoices}

\* Insert(vector, index, data): the data is a contained float constant (then the
\* index is a contained constant too, any value) or is in a register.
InsertNodes ==
    {MkNode("NI_AdvSimd_Insert", "HW_Category_IMM", t, 16, target,
            <<op[1], i.r, IF fi THEN REG_NA ELSE op[2]>>, rmw, FALSE, i.ic, i.c, i.ub,
            i.mi, fi, FALSE) :
        t \in {"TYP_INT", "TYP_FLOAT"}, target \in Regs, op \in OpRegs(2),
        i \in ImmChoices, rmw \in BOOLEAN, fi \in BOOLEAN}

Nodes ==
    TableDrivenNodes \cup BitwiseSelectNodes \cup CrcNodes \cup ReversedNodes
    \cup FmaNodes \cup StoreNodes \cup CreateNodes \cup ZeroNodes \cup UnhandledNodes
    \cup ExtractNodes \cup ExtractVectorNodes \cup InsertNodes

\* ---------------------------------------------------------------- state

VARIABLES
    node,       \* the GenTreeHWIntrinsic being generated
    pc,         \* where genHWIntrinsic (then the emitted code) stands
    stream,     \* what the emitter was handed, in order
    helper,     \* the HWIntrinsicImmOpHelper's fields
    nextLabel,  \* genCreateTempLabel's next fresh label
    produced,   \* genProduceReg(node) has run
    cpu         \* the machine executing the emitted stream

vars == <<node, pc, stream, helper, nextLabel, produced, cpu>>

NoHelper ==
    [nonConstImmReg |-> REG_NA, immValue |-> 0, immUpperBound |-> 0,
     endLabel |-> nullptr, nonZeroLabel |-> nullptr, branchTargetReg |-> REG_NA,
     beginLabel |-> nullptr, built |-> FALSE]

Init ==
    /\ node \in Nodes
    /\ pc = "start"
    /\ stream = <<>>
    /\ helper = NoHelper
    /\ nextLabel = 1
    /\ produced = FALSE
    /\ cpu = [addr |-> 0, scratch |-> 0, v |-> 0, trace |-> <<>>]

\* ------------------------------------------- genHWIntrinsic: prologue

\* Lines 176-203: opNReg stays REG_NA unless numOperands reaches operand N.
op1Reg(n) == IF n.numOperands \in 1 .. 3 THEN n.ops[1] ELSE REG_NA

op2Reg(n) == IF n.numOperands \in 2 .. 3 THEN n.ops[2] ELSE REG_NA

op3Reg(n) == IF n.numOperands = 3 THEN n.ops[3] ELSE REG_NA

\* Lines 205-221: the emitAttr of the instruction.
emitSize(n) ==
    IF n.category \in {"HW_Category_SIMDScalar", "HW_Category_Scalar"}
    THEN emitActualTypeSize(n.baseType)
    ELSE n.gtSIMDSize

\* Lines 206-221: the insOpts of the instruction.
opt(n) ==
    IF n.category \in {"HW_Category_SIMDScalar", "HW_Category_Scalar"}
    THEN "INS_OPTS_NONE"
    ELSE IF n.gtSIMDSize \notin {8, 16} THEN "INS_OPTS_NONE"
    ELSE LET o == genGetSimdInsOpt(n.gtSIMDSize, n.baseType) IN
         IF o = "INS_OPTS_1D" /\ n.category = "HW_Category_SimpleSIMD"
         THEN "INS_OPTS_NONE" ELSE o

\* What a straight-line piece of genHWIntrinsic does: the items it emits and
\* whether it ran to its end (ok) or stopped on an assertion or unreached().
Emitted(out) == [ok |-> TRUE, out |-> out]

Halts(out) == [ok |-> FALSE, out |-> out]

\* Lines 180-203: the switch on numOperands.
GenPrologue ==
    /\ pc = "start"
    /\ pc' = IF node.numOperands \in 0 .. 3 THEN "select" ELSE "halted"
    /\ UNCHANGED <<node, stream, helper, nextLabel, produced, cpu>>

\* --------------------------------------- genHWIntrinsic: table-driven

\* A needless move: emitted whatever register op1 is in.
RMWMoveAlways(n) ==
    <<emitIns_R_R("INS_mov", emitSize(n), n.targetReg, op1Reg(n), "INS_OPTS_NONE")>>

\* Lines 243-246 and 260-263: op1 is moved into the target unless it is there.
RMWMove(n) ==
    IF n.targetReg # op1Reg(n)
    THEN <<emitIns_R_R("INS_mov", emitSize(n), n.targetReg, op1Reg(n), "INS_OPTS_NONE")>>
    ELSE <<>>

\* Lines 227-271.
TableDrivenPath(n) ==
    LET ins == lookupIns(n.id, n.baseType)
        targetReg == n.targetReg
    IN  IF ins = "INS_invalid" THEN Halts(<<>>)
        ELSE CASE n.numOperands = 1 ->
                    Emitted(<<emitIns_R_R(ins, emitSize(n), targetReg, op1Reg(n), opt(n))>>)
               [] n.numOperands = 2 ->
                    IF n.isRMW
                    THEN IF targetReg = op2Reg(n) THEN Halts(<<>>)
                         ELSE Emitted(
                            RMWMove(n)
                            \o <<emitIns_R_R(ins, emitSize(n), targetReg, op2Reg(n), opt(n))>>)
                    ELSE Emitted(<<emitIns_R_R_R(ins, emitSize(n), targetReg, op1Reg(n), op2Reg(n), opt(n))>>)
               [] n.numOperands = 3 ->
                    IF ~n.isRMW \/ targetReg = op2Reg(n) \/ targetReg = op3Reg(n)
                    THEN Halts(<<>>)
                    ELSE Emitted(
                            RMWMove(n)
                            \o <<emitIns_R_R_R(ins, emitSize(n), targetReg, op2Reg(n), op3Reg(n), opt(n))>>)
               [] OTHER -> Halts(<<>>)

GenTableDriven ==
    /\ pc = "select"
    /\ node.tableDriven
    /\ LET r == TableDrivenPath(node) IN
        /\ stream' = stream \o r.out
        /\ pc' = IF r.ok THEN "genProduceReg" ELSE "halted"
    /\ UNCHANGED <<node, helper, nextLabel, produced, cpu>>

\* --------------------------------------- genHWIntrinsic: special cases

\* Lines 274-314: the opcode of a special-cased intrinsic.
SpecialIns(n) ==
    CASE n.id = "NI_Crc32_ComputeCrc32" ->
            IF n.baseType = "TYP_INT" THEN "INS_crc32w" ELSE lookupIns(n.id, n.baseType)
      [] n.id = "NI_Crc32_ComputeCrc32C" ->
            IF n.baseType = "TYP_INT" THEN "INS_crc32cw" ELSE lookupIns(n.id, n.baseType)
      [] n.id = "NI_Crc32_Arm64_ComputeCrc32" ->
            IF n.baseType = "TYP_LONG" THEN "INS_crc32x" ELSE "INS_invalid"
      [] n.id = "NI_Crc32_Arm64_ComputeCrc32C" ->
            IF n.baseType = "TYP_LONG" THEN "INS_crc32cx" ELSE "INS_invalid"
      [] OTHER -> lookupIns(n.id, n.baseType)

\* The aliasing tests in another order: op2 is tried before op1.
BitwiseSelectOp2First(n) ==
    LET targetReg == n.targetReg IN
    IF n.isRMW THEN Halts(<<>>)
    ELSE IF targetReg = op2Reg(n)
    THEN Emitted(<<emitIns_R_R_R("INS_bif", emitSize(n), targetReg, op3Reg(n), op1Reg(n), opt(n))>>)
    ELSE IF targetReg = op1Reg(n)
    THEN Emitted(<<emitIns_R_R_R("INS_bsl", emitSize(n), targetReg, op2Reg(n), op3Reg(n), opt(n))>>)
    ELSE IF targetReg = op3Reg(n)
    THEN Emitted(<<emitIns_R_R_R("INS_bit", emitSize(n), targetReg, op2Reg(n), op1Reg(n), opt(n))>>)
    ELSE Emitted(<<emitIns_R_R("INS_mov", emitSize(n), targetReg, op1Reg(n), "INS_OPTS_NONE"),
                   emitIns_R_R_R("INS_bsl", emitSize(n), targetReg, op2Reg(n), op3Reg(n), opt(n))>>)

\* Lines 318-340.
BitwiseSelect(n) ==
    LET targetReg == n.targetReg IN
    IF n.isRMW THEN Halts(<<>>)
    ELSE IF targetReg = op1Reg(n)
    THEN Emitted(<<emitIns_R_R_R("INS_bsl", emitSize(n), targetReg, op2Reg(n), op3Reg(n), opt(n))>>)
    ELSE IF targetReg = op2Reg(n)
    THEN Emitted(<<emitIns_R_R_R("INS_bif", emitSize(n), targetReg, op3Reg(n), op1Reg(n), opt(n))>>)
    ELSE IF targetReg = op3Reg(n)
    THEN Emitted(<<emitIns_R_R_R("INS_bit", emitSize(n), targetReg, op2Reg(n), op1Reg(n), opt(n))>>)
    ELSE Emitted(<<emitIns_R_R("INS_mov", emitSize(n), targetReg, op1Reg(n), "INS_OPTS_NONE"),
                   emitIns_R_R_R("INS_bsl", emitSize(n), targetReg, op2Reg(n), op3Reg(n), opt(n))>>)

\* Lines 455-488.
CreateScalarUnsafe(n, ins) ==
    IF n.fltImmed
    THEN Emitted(<<emitIns_R_F(ins, emitTypeSize(n.baseType), n.targetReg, n.dataValue, "INS_OPTS_NONE")>>)
    ELSE IF varTypeIsFloating(n.baseType)
    THEN IF n.targetReg # op1Reg(n)
         THEN Emitted(<<emitIns_R_R(ins, emitTypeSize(n.baseType), n.targetReg, op1Reg(n), "INS_OPTS_NONE")>>)
         ELSE Emitted(<<>>)
    ELSE IF n.intImmed
    THEN Emitted(<<emitIns_R_I("INS_movi", emitSize(n), n.targetReg, n.dataValue, opt(n))>>)
    ELSE Emitted(<<emitIns_R_R_I(ins, emitTypeSize(n.baseType), n.targetReg, op1Reg(n), 0, "INS_OPTS_NONE")>>)

\* Lines 316-377 and 455-503: the special cases that do not use the helper.
SpecialPath(n) ==
    LET ins == SpecialIns(n)
        targetReg == n.targetReg
    IN  IF ins = "INS_invalid" THEN Halts(<<>>)
        ELSE CASE n.id = "NI_AdvSimd_BitwiseSelect" -> BitwiseSelect(n)
               [] n.id \in CrcIds ->
                    Emitted(<<emitIns_R_R_R(ins, emitSize(n), targetReg, op1Reg(n), op2Reg(n), opt(n))>>)
               [] n.id \in ReversedIds ->
                    Emitted(<<emitIns_R_R_R(ins, emitSize(n), targetReg, op2Reg(n), op1Reg(n), opt(n))>>)
               [] n.id \in FmaIds ->
                    IF opt(n) # "INS_OPTS_NONE" THEN Halts(<<>>)
                    ELSE Emitted(<<emitIns_R_R_R_R(ins, emitSize(n), targetReg, op2Reg(n), op3Reg(n), op1Reg(n))>>)
               [] n.id = "NI_AdvSimd_Store" ->
                    Emitted(<<emitIns_R_R(ins, emitSize(n), op2Reg(n), op1Reg(n), opt(n))>>)
               [] n.id \in CreateIds -> CreateScalarUnsafe(n, ins)
               [] n.id = "NI_Vector64_get_Zero" ->
                    Emitted(<<emitIns_R_I(ins, emitSize(n), targetReg, 0, "INS_OPTS_2S")>>)
               [] n.id = "NI_Vector128_get_Zero" ->
                    Emitted(<<emitIns_R_I(ins, emitSize(n), targetReg, 0, "INS_OPTS_4S")>>)
               [] OTHER -> Halts(<<>>)

GenSpecial ==
    /\ pc = "select"
    /\ ~node.tableDriven
    /\ node.id \notin ImmOpIds
    /\ LET r == SpecialPath(node) IN
        /\ stream' = stream \o r.out
        /\ pc' = IF r.ok THEN "genProduceReg" ELSE "halted"
    /\ UNCHANGED <<node, helper, nextLabel, produced, cpu>>

\* ------------------------------------------- HWIntrinsicImmOpHelper

\* The accessors of the helper class.
NonConstImmOp(h) == h.nonConstImmReg # REG_NA

TestImmOpZeroOrOne(h) == h.immUpperBound = 2

Done(h) == h.immValue = h.immUpperBound

ImmValue(h) == h.immValue

\* An upper bound that leaves room for a second case.
ConstImmUpperBoundOff(immValue) == immValue + 2

\* Line 50: the upper bound of a constant immediate.
ConstImmUpperBound(immValue) == immValue + 1

\* Lines 39-78: the constructor, for the immediate operand held in immReg.
\* lbl is genCreateTempLabel's next label.  The result is the helper (h), the
\* next fresh label (lbl), and ok = FALSE when the assertion of line 72 fails.
HWIntrinsicImmOpHelper(n, immReg, lbl) ==
    IF n.immContained
    THEN [ok |-> TRUE, lbl |-> lbl,
          h |-> [nonConstImmReg |-> REG_NA, immValue |-> n.immConVal,
                 immUpperBound |-> ConstImmUpperBound(n.immConVal), endLabel |-> nullptr,
                 nonZeroLabel |-> nullptr, branchTargetReg |-> REG_NA,
                 beginLabel |-> nullptr, built |-> TRUE]]
    ELSE LET h0 == [nonConstImmReg |-> immReg, immValue |-> 0,
                    immUpperBound |-> n.upperBound, endLabel |-> nullptr,
                    nonZeroLabel |-> nullptr, branchTargetReg |-> REG_NA,
                    beginLabel |-> nullptr, built |-> TRUE]
         IN  IF TestImmOpZeroOrOne(h0)
             THEN [ok |-> TRUE, lbl |-> lbl + 2,
                   h |-> [h0 EXCEPT !.nonZeroLabel = lbl, !.endLabel = lbl + 1]]
             ELSE IF n.multiIns
             THEN [ok |-> FALSE, lbl |-> lbl, h |-> h0]
             ELSE [ok |-> TRUE, lbl |-> lbl + 1,
                   h |-> [h0 EXCEPT !.branchTargetReg = n.tempReg, !.endLabel = lbl]]

\* The shift that would scale by the size of one instruction.
DispatchShiftOneIns == 3 - 1

\* Line 111: the left shift applied to the immediate register.
DispatchShift == 3

\* Every non-constant immediate dispatched as if it could only be 0 or 1.
EmitBeginOutAlwaysCbnz(h, beginLabel) ==
    IF NonConstImmOp(h)
    THEN <<emitIns_J_R("INS_cbnz", 4, h.nonZeroLabel, h.nonConstImmReg),
           LabelDef(beginLabel)>>
    ELSE <<>>

\* Every non-constant immediate dispatched through the computed branch.
EmitBeginOutAlwaysTable(h, beginLabel) ==
    IF NonConstImmOp(h)
    THEN <<emitIns_R_L("INS_adr", 8, beginLabel, h.branchTargetReg),
           emitIns_R_R_R_I("INS_add", 8, h.branchTargetReg, h.branchTargetReg,
                           h.nonConstImmReg, 3, "INS_OPTS_LSL"),
           emitIns_R("INS_br", 8, h.branchTargetReg),
           LabelDef(beginLabel)>>
    ELSE <<>>

\* Lines 96-118: what EmitBegin emits; beginLabel is the label it creates.
EmitBeginOut(h, beginLabel) ==
    IF NonConstImmOp(h)
    THEN (IF TestImmOpZeroOrOne(h)
          THEN <<emitIns_J_R("INS_cbnz", 4, h.nonZeroLabel, h.nonConstImmReg)>>
          ELSE <<emitIns_R_L("INS_adr", 8, beginLabel, h.branchTargetReg),
                 emitIns_R_R_R_I("INS_add", 8, h.branchTargetReg, h.branchTargetReg,
                                 h.nonConstImmReg, DispatchShift, "INS_OPTS_LSL"),
                 emitIns_R("INS_br", 8, h.branchTargetReg)>>)
         \o <<LabelDef(beginLabel)>>
    ELSE <<>>

EmitBegin ==
    /\ pc = "EmitBegin"
    /\ stream' = stream \o EmitBeginOut(helper, nextLabel)
    /\ IF NonConstImmOp(helper)
       THEN /\ helper' = [helper EXCEPT !.beginLabel = nextLabel]
            /\ nextLabel' = nextLabel + 1
       ELSE UNCHANGED <<helper, nextLabel>>
    /\ pc' = "Done"
    /\ UNCHANGED <<node, produced, cpu>>

\* A case end without the branch to endLabel.
EmitCaseEndOutNoBranch(h, tempLabel) ==
    IF NonConstImmOp(h)
    THEN IF h.immValue + 1 = h.immUpperBound
         THEN <<LabelDef(h.endLabel)>>
         ELSE IF TestImmOpZeroOrOne(h)
              THEN <<LabelDef(h.nonZeroLabel)>>
              ELSE <<LabelDef(tempLabel)>>
    ELSE <<>>

\* Lines 137-159: what EmitCaseEnd emits; tempLabel is the label it may create.
EmitCaseEndOut(h, tempLabel) ==
    IF NonConstImmOp(h)
    THEN IF h.immValue + 1 = h.immUpperBound
         THEN <<LabelDef(h.endLabel)>>
         ELSE <<emitIns_J("INS_b", h.endLabel)>>
              \o (IF TestImmOpZeroOrOne(h)
                  THEN <<LabelDef(h.nonZeroLabel)>>
                  ELSE <<LabelDef(tempLabel)>>)
    ELSE <<>>

\* Lines 149-157: EmitCaseEnd takes a fresh label only for a jump-table case
\* that is not the last.
CaseEndCreatesLabel(h) ==
    /\ NonConstImmOp(h)
    /\ h.immValue + 1 # h.immUpperBound
    /\ ~TestImmOpZeroOrOne(h)

\* An increment that steps over a value.
NextImmValueSkip(h) == h.immValue + 2

\* Line 161.
NextImmValue(h) == h.immValue + 1

\* Lines 133-162.
EmitCaseEnd ==
    /\ pc = "EmitCaseEnd"
    /\ IF Done(helper)
       THEN /\ pc' = "halted"
            /\ UNCHANGED <<stream, helper, nextLabel>>
       ELSE /\ stream' = stream \o EmitCaseEndOut(helper, nextLabel)
            /\ nextLabel' = IF CaseEndCreatesLabel(helper) THEN nextLabel + 1 ELSE nextLabel
            /\ helper' = [helper EXCEPT !.immValue = NextImmValue(helper)]
            /\ pc' = "Done"
    /\ UNCHANGED <<node, produced, cpu>>

\* ------------------------------- genHWIntrinsic: immediate-operand cases

\* Lines 380-381, 396-398: Extract's immediate is op2, ExtractVector's is op3.
GenExtract ==
    /\ pc = "select"
    /\ ~node.tableDriven
    /\ node.id \in {"NI_AdvSimd_Extract", "NI_AdvSimd_ExtractVector64",
                    "NI_AdvSimd_ExtractVector128"}
    /\ LET c == HWIntrinsicImmOpHelper(
                    node, IF node.id = "NI_AdvSimd_Extract" THEN op2Reg(node) ELSE op3Reg(node),
                    nextLabel)
       IN  /\ helper' = c.h
           /\ nextLabel' = c.lbl
           /\ pc' = IF c.ok THEN "EmitBegin" ELSE "halted"
    /\ UNCHANGED <<node, stream, produced, cpu>>

\* The move emitted ahead of the assertions.
InsertMoveFirst(n) ==
    LET m == IF n.targetReg # op1Reg(n)
             THEN <<emitIns_R_R("INS_mov", emitSize(n), n.targetReg, op1Reg(n), "INS_OPTS_NONE")>>
             ELSE <<>>
    IN  IF ~n.isRMW \/ n.targetReg = op3Reg(n) THEN Halts(m) ELSE Emitted(m)

\* Lines 411-417: Insert's RMW assertions and the move of op1 into the target.
InsertMove(n) ==
    IF ~n.isRMW \/ n.targetReg = op3Reg(n) THEN Halts(<<>>)
    ELSE IF n.targetReg # op1Reg(n)
    THEN Emitted(<<emitIns_R_R("INS_mov", emitSize(n), n.targetReg, op1Reg(n), "INS_OPTS_NONE")>>)
    ELSE Emitted(<<>>)

\* Lines 419-427: a contained float constant is moved in directly; the lane
\* index must then be the contained constant 0.
InsertFmov(n) ==
    IF ~n.immContained \/ n.immConVal # 0 THEN Halts(<<>>)
    ELSE Emitted(<<emitIns_R_F("INS_fmov", emitTypeSize(n.baseType), n.targetReg,
                               n.dataValue, "INS_OPTS_NONE")>>)

\* Lines 410-431.
GenInsert ==
    /\ pc = "select"
    /\ ~node.tableDriven
    /\ node.id = "NI_AdvSimd_Insert"
    /\ LET m == InsertMove(node)
           f == InsertFmov(node)
           c == HWIntrinsicImmOpHelper(node, op2Reg(node), nextLabel)
       IN  IF ~m.ok
           THEN /\ stream' = stream \o m.out
                /\ pc' = "halted"
                /\ UNCHANGED <<helper, nextLabel>>
           ELSE IF node.fltImmed
           THEN /\ stream' = stream \o m.out \o f.out
                /\ pc' = IF f.ok THEN "genProduceReg" ELSE "halted"
                /\ UNCHANGED <<helper, nextLabel>>
           ELSE /\ stream' = stream \o m.out
                /\ helper' = c.h
                /\ nextLabel' = c.lbl
                /\ pc' = IF c.ok THEN "EmitBegin" ELSE "halted"
    /\ UNCHANGED <<node, produced, cpu>>

\* The lane index used as it is.
byteIndexRaw(n, elementIndex) == elementIndex

\* Line 403.
byteIndex(n, elementIndex) == genTypeSize(n.baseType) * elementIndex

\* Lines 385-388, 396-405, 436-449: the instruction of one case.
CaseIns(n, elementIndex) ==
    LET ins == lookupIns(n.id, n.baseType) IN
    CASE n.id = "NI_AdvSimd_Extract" ->
            emitIns_R_R_I(ins, emitTypeSize(n.baseType), n.targetReg, op1Reg(n),
                          elementIndex, "INS_OPTS_NONE")
      [] n.id = "NI_AdvSimd_ExtractVector64" ->
            emitIns_R_R_R_I(ins, emitSize(n), n.targetReg, op1Reg(n), op2Reg(n),
                            byteIndex(n, elementIndex), "INS_OPTS_8B")
      [] n.id = "NI_AdvSimd_ExtractVector128" ->
            emitIns_R_R_R_I(ins, emitSize(n), n.targetReg, op1Reg(n), op2Reg(n),
                            byteIndex(n, elementIndex), "INS_OPTS_16B")
      [] n.id = "NI_AdvSimd_Insert" ->
            IF varTypeIsFloating(n.baseType)
            THEN emitIns_R_R_I_I(ins, emitTypeSize(n.baseType), n.targetReg, op3Reg(n),
                                 elementIndex, 0, "INS_OPTS_NONE")
            ELSE emitIns_R_R_I(ins, emitTypeSize(n.baseType), n.targetReg, op3Reg(n),
                               elementIndex, "INS_OPTS_NONE")

\* The body of for (helper.EmitBegin(); !helper.Done(); helper.EmitCaseEnd()).
CaseBody ==
    /\ pc = "Done"
    /\ ~Done(helper)
    /\ stream' = Append(stream, CaseIns(node, ImmValue(helper)))
    /\ pc' = "EmitCaseEnd"
    /\ UNCHANGED <<node, helper, nextLabel, produced, cpu>>

\* The loop ends when Done() holds.
LoopExit ==
    /\ pc = "Done"
    /\ Done(helper)
    /\ pc' = "genProduceReg"
    /\ UNCHANGED <<node, stream, helper, nextLabel, produced, cpu>>

\* Line 506.
GenProduceReg ==
    /\ pc = "genProduceReg"
    /\ produced' = TRUE
    /\ pc' = "done"
    /\ UNCHANGED <<node, stream, helper, nextLabel, cpu>>

\* ------------------------------------------- executing the emitted code

\* The machine keeps the byte address of the next instruction (addr), the
\* value of the immediate register (v), the value of the helper's branch
\* target register (scratch) and the indices, in Instructions(stream), of the
\* instructions executed so far (trace).  The immediate register is a
\* general-purpose register and is only read by the dispatch code; the one
\* instruction emitted ahead of the dispatch code (Insert's mov) writes a SIMD
\* register, so v is constant during a run.

\* The instruction at byte address a, or a label definition when a is not
\* the address of an instruction of the stream.
InsAt(s, a) ==
    IF a % InsSize = 0 /\ a \div InsSize < Len(Instructions(s)) /\ a >= 0
    THEN Instructions(s)[a \div InsSize + 1]
    ELSE LabelDef(nullptr)

ReadReg(c, h, r) ==
    IF r = h.branchTargetReg THEN c.scratch
    ELSE IF r = h.nonConstImmReg THEN c.v
    ELSE 0

Fetched(c) == [c EXCEPT !.trace = Append(@, c.addr \div InsSize + 1)]

\* 2^n, for the LSL of add.
Pow2(n) == IF n = 0 THEN 1 ELSE IF n = 1 THEN 2 ELSE IF n = 2 THEN 4 ELSE IF n = 3 THEN 8 ELSE 16

\* The emitted code is entered with any legal value in the immediate register.
ExecStart ==
    /\ pc = "done"
    /\ helper.built
    /\ NonConstImmOp(helper)
    /\ \E v \in 0 .. (helper.immUpperBound - 1) :
            cpu' = [addr |-> 0, scratch |-> 0, v |-> v, trace |-> <<>>]
    /\ pc' = "exec"
    /\ UNCHANGED <<node, stream, helper, nextLabel, produced>>

\* cbnz reg, label
ExecCbnz ==
    /\ pc = "exec"
    /\ LET i == InsAt(stream, cpu.addr) IN
        /\ i.k = "ins" /\ i.ins = "INS_cbnz"
        /\ cpu' = [Fetched(cpu) EXCEPT !.addr =
                      IF ReadReg(cpu, helper, i.regs[1]) # 0
                      THEN LabelAddr(stream, i.lbl) ELSE cpu.addr + InsSize]
    /\ UNCHANGED <<node, pc, stream, helper, nextLabel, produced>>

\* adr reg, label
ExecAdr ==
    /\ pc = "exec"
    /\ LET i == InsAt(stream, cpu.addr) IN
        /\ i.k = "ins" /\ i.ins = "INS_adr"
        /\ cpu' = [Fetched(cpu) EXCEPT !.addr = cpu.addr + InsSize,
                                       !.scratch = LabelAddr(stream, i.lbl)]
    /\ UNCHANGED <<node, pc, stream, helper, nextLabel, produced>>

\* add reg, reg1, reg2, LSL #imm
ExecAdd ==
    /\ pc = "exec"
    /\ LET i == InsAt(stream, cpu.addr) IN
        /\ i.k = "ins" /\ i.ins = "INS_add"
        /\ cpu' = [Fetched(cpu) EXCEPT !.addr = cpu.addr + InsSize,
                                       !.scratch = ReadReg(cpu, helper, i.regs[2])
                                           + ReadReg(cpu, helper, i.regs[3]) * Pow2(i.imm)]
    /\ UNCHANGED <<node, pc, stream, helper, nextLabel, produced>>

\* br reg
ExecBr ==
    /\ pc = "exec"
    /\ LET i == InsAt(stream, cpu.addr) IN
        /\ i.k = "ins" /\ i.ins = "INS_br"
        /\ cpu' = [Fetched(cpu) EXCEPT !.addr = ReadReg(cpu, helper, i.regs[1])]
    /\ UNCHANGED <<node, pc, stream, helper, nextLabel, produced>>

\* b label
ExecB ==
    /\ pc = "exec"
    /\ LET i == InsAt(stream, cpu.addr) IN
        /\ i.k = "ins" /\ i.ins = "INS_b"
        /\ cpu' = [Fetched(cpu) EXCEPT !.addr = LabelAddr(stream, i.lbl)]
    /\ UNCHANGED <<node, pc, stream, helper, nextLabel, produced>>

\* Any other instruction falls through to the next one.
ExecData ==
    /\ pc = "exec"
    /\ LET i == InsAt(stream, cpu.addr) IN
        /\ i.k = "ins"
        /\ i.ins \notin {"INS_cbnz", "INS_adr", "INS_add", "INS_br", "INS_b"}
        /\ cpu' = [Fetched(cpu) EXCEPT !.addr = cpu.addr + InsSize]
    /\ UNCHANGED <<node, pc, stream, helper, nextLabel, produced>>

\* Control leaves the emitted code at the address just past its last instruction.
ExecEnd ==
    /\ pc = "exec"
    /\ cpu.addr = InsSize * Len(Instructions(stream))
    /\ pc' = "ran"
    /\ UNCHANGED <<node, stream, helper, nextLabel, produced, cpu>>

Next ==
    \/ GenPrologue
    \/ GenTableDriven
    \/ GenSpecial
    \/ GenExtract
    \/ GenInsert
    \/ EmitBegin
    \/ CaseBody
    \/ EmitCaseEnd
    \/ LoopExit
    \/ GenProduceReg
    \/ ExecStart
    \/ ExecCbnz
    \/ ExecAdr
    \/ ExecAdd
    \/ ExecBr
    \/ ExecB
    \/ ExecData
    \/ ExecEnd

Spec == Init /\ [][Next]_vars

\* ------------------------------------------------------------ properties

\* The for-loop over the helper has ended.
LoopDone == helper.built /\ pc \in {"genProduceReg", "done", "exec", "ran"}

\* What genHWIntrinsic emitted ahead of the helper's loop (Insert's move).
Prefix == IF node.id = "NI_AdvSimd_Insert" THEN InsertMove(node).out ELSE <<>>

\* What the helper and the case bodies emitted.
LoopStream == SubSeq(stream, Len(Prefix) + 1, Len(stream))

\* A per-case instruction: the opcode of the intrinsic, which differs from the
\* opcodes of the move and of the dispatch code.
IsCase(i) == i.k = "ins" /\ i.ins = lookupIns(node.id, node.baseType)

\* The per-case instructions emitted, in order.
CaseSeq == SelectSeq(LoopStream, IsCase)

IsExecutedCase(k) == IsCase(Instructions(stream)[k])

\* Position in the trace of the first per-case instruction executed (0: none).
FirstCaseAt ==
    LET P == {p \in 1 .. Len(cpu.trace) : IsExecutedCase(cpu.trace[p])} IN
    IF P = {} THEN 0 ELSE CHOOSE p \in P : \A q \in P : p <= q

\* The instructions executed after the first per-case instruction.
AfterCase ==
    LET t == SubSeq(cpu.trace, FirstCaseAt + 1, Len(cpu.trace)) IN
    [p \in 1 .. Len(t) |-> Instructions(stream)[t[p]]]

\* C1: with any run-time value v in [0, N) in the immediate register, the
\* emitted dispatch code executes exactly one per-case instruction, the one
\* emitted for ImmValue() = v, and control then reaches endLabel having executed
\* nothing else but, at most, that case's branch to endLabel.  While running, the
\* machine is always at an instruction of the stream (or at its end), never
\* executes an instruction twice and never executes a second case.
C1_ExactlyOneCaseRuns ==
    /\ pc = "exec" =>
        /\ \/ InsAt(stream, cpu.addr).k = "ins"
           \/ cpu.addr = InsSize * Len(Instructions(stream))
        /\ Cardinality({p \in 1 .. Len(cpu.trace) : IsExecutedCase(cpu.trace[p])}) <= 1
        /\ Cardinality({cpu.trace[p] : p \in 1 .. Len(cpu.trace)}) = Len(cpu.trace)
    /\ pc = "ran" =>
        /\ FirstCaseAt # 0
        /\ Instructions(stream)[cpu.trace[FirstCaseAt]] = CaseIns(node, cpu.v)
        /\ AfterCase \in {<<>>, <<emitIns_J("INS_b", helper.endLabel)>>}
        /\ cpu.addr = LabelAddr(stream, helper.endLabel)

\* C1 witness: a jump-table run with v = 2 has executed case 2 and reached endLabel.
C1_Witness ==
    /\ pc = "ran"
    /\ ~TestImmOpZeroOrOne(helper)
    /\ helper.immUpperBound > 2
    /\ cpu.v = 2
    /\ FirstCaseAt # 0
    /\ Instructions(stream)[cpu.trace[FirstCaseAt]] = CaseIns(node, 2)

\* The dispatch-setup sequence of a jump table.
SetupSeq ==
    <<emitIns_R_L("INS_adr", 8, helper.beginLabel, helper.branchTargetReg),
      emitIns_R_R_R_I("INS_add", 8, helper.branchTargetReg, helper.branchTargetReg,
                      helper.nonConstImmReg, 3, "INS_OPTS_LSL"),
      emitIns_R("INS_br", 8, helper.branchTargetReg)>>

\* The shape of a jump table's stream, when the case for value v embeds the
\* immediate scale * v: N per-case instructions that differ in nothing but the
\* immediate, in ascending order of it; one setup sequence, first; no cbnz.
JumpTableShape(scale) ==
    (LoopDone /\ NonConstImmOp(helper) /\ helper.immUpperBound > 2) =>
        LET I == Instructions(LoopStream) IN
        /\ Len(CaseSeq) = helper.immUpperBound
        /\ \A j \in 1 .. Len(CaseSeq) :
                CaseSeq[j] = [CaseSeq[1] EXCEPT !.imm = scale * (j - 1)]
        /\ Len(I) >= 3
        /\ SubSeq(I, 1, 3) = SetupSeq
        /\ \A k \in 4 .. Len(I) :
                I[k].ins \notin {"INS_adr", "INS_add", "INS_br", "INS_cbnz"}
        /\ helper.branchTargetReg = node.tempReg

\* C2 as stated: for upper bound N > 2 exactly N per-case instructions are
\* emitted, otherwise identical and in ascending order of embedded immediate
\* 0, 1, ..., N-1; exactly one adr/add/br setup sequence is emitted, before all
\* of them; no cbnz is emitted.
C2_Original == JumpTableShape(1)

\* C2 amended: the same, the embedded immediate of the case for value v being
\* v for Extract and Insert and genTypeSize(baseType) * v for ExtractVector64
\* and ExtractVector128.
C2_JumpTableStream ==
    JumpTableShape(IF node.id \in {"NI_AdvSimd_ExtractVector64", "NI_AdvSimd_ExtractVector128"}
                   THEN genTypeSize(node.baseType) ELSE 1)

\* C2 witness: a finished jump table of 3 cases over 2-byte elements.
C2_Witness ==
    /\ LoopDone /\ NonConstImmOp(helper) /\ helper.immUpperBound = 3
    /\ node.id = "NI_AdvSimd_ExtractVector64" /\ node.baseType = "TYP_SHORT"
    /\ Len(CaseSeq) = 3 /\ CaseSeq[3].imm = 4

\* The stream of a zero-or-one dispatch, with the items EmitBegin puts
\* between the cbnz and the case for value 0.
ZeroOrOneShape(afterCbnz) ==
    (LoopDone /\ NonConstImmOp(helper) /\ helper.immUpperBound = 2) =>
        /\ LoopStream =
              <<emitIns_J_R("INS_cbnz", 4, helper.nonZeroLabel, helper.nonConstImmReg)>>
              \o afterCbnz
              \o <<CaseIns(node, 0), emitIns_J("INS_b", helper.endLabel),
                   LabelDef(helper.nonZeroLabel), CaseIns(node, 1),
                   LabelDef(helper.endLabel)>>
        /\ helper.branchTargetReg = REG_NA
        /\ helper.nonZeroLabel # nullptr /\ helper.endLabel # nullptr
        /\ helper.nonZeroLabel # helper.endLabel

\* C3 as stated: for upper bound 2 the emitted stream is cbnz to nonZeroLabel,
\* the case for 0, b endLabel, the definition of nonZeroLabel, the case for 1,
\* the definition of endLabel; no adr/add/br and no scratch register.
C3_Original == ZeroOrOneShape(<<>>)

\* C3 amended: the same stream with, between the cbnz and the case for 0, the
\* definition of beginLabel, which EmitBegin creates and defines for every
\* non-constant immediate and which nothing refers to in this mode.
C3_ZeroOrOneStream ==
    /\ ZeroOrOneShape(<<LabelDef(helper.beginLabel)>>)
    /\ (LoopDone /\ NonConstImmOp(helper) /\ helper.immUpperBound = 2) =>
            helper.beginLabel \notin {nullptr, helper.nonZeroLabel, helper.endLabel}

\* C3 witness: a finished zero-or-one dispatch of seven items.
C3_Witness ==
    /\ LoopDone /\ NonConstImmOp(helper) /\ helper.immUpperBound = 2
    /\ Len(LoopStream) = 7 /\ LoopStream[2].k = "label"

\* C4: for a contained constant c the helper takes no label and no scratch
\* register, EmitBegin and EmitCaseEnd emit nothing, and the loop runs its body
\* once, with ImmValue() = c: the one instruction of the construct.
C4_ConstantElidesDispatch ==
    (helper.built /\ ~NonConstImmOp(helper)) =>
        /\ nextLabel = 1
        /\ helper.endLabel = nullptr /\ helper.nonZeroLabel = nullptr
        /\ helper.beginLabel = nullptr /\ helper.branchTargetReg = REG_NA
        /\ pc \in {"EmitBegin", "Done", "EmitCaseEnd", "genProduceReg", "done"}
        /\ (pc = "EmitBegin" \/ (pc = "Done" /\ ~Done(helper))) => LoopStream = <<>>
        /\ (pc = "EmitCaseEnd" \/ (pc = "Done" /\ Done(helper)) \/ LoopDone) =>
                LoopStream = <<CaseIns(node, node.immConVal)>>

\* C4 witness: the loop over the constant 2 has ended with one instruction.
C4_Witness ==
    /\ LoopDone /\ ~NonConstImmOp(helper) /\ node.immConVal = 2
    /\ LoopStream = <<CaseIns(node, 2)>>

\* C5 as stated: when the loop ends, the number of case bodies emitted equals
\* immUpperBound, for a constant immediate too.
C5_Original == LoopDone => Len(CaseSeq) = helper.immUpperBound

\* C5 amended: when the loop ends, the number of case bodies emitted is
\* immUpperBound less the value immValue started at: immUpperBound (the
\* oracle's upper bound) for a non-constant immediate, and 1 for a constant c,
\* whose immUpperBound is c + 1.
C5_CaseCount ==
    LoopDone =>
        /\ Done(helper)
        /\ NonConstImmOp(helper) =>
                Len(CaseSeq) = helper.immUpperBound /\ helper.immUpperBound = node.upperBound
        /\ ~NonConstImmOp(helper) =>
                Len(CaseSeq) = 1 /\ helper.immUpperBound = node.immConVal + 1

\* C5 witness: the loop over the constant 2 ended after one body, immUpperBound 3.
C5_Witness ==
    /\ LoopDone /\ ~NonConstImmOp(helper) /\ node.immConVal = 2
    /\ Len(CaseSeq) = 1 /\ helper.immUpperBound = 3

\* genHWIntrinsic has emitted all it emits for the node and not halted.
Emission == pc \in {"genProduceReg", "done", "exec", "ran"}

\* C6: a table-driven RMW operation of 2 or 3 operands emits the operation
\* alone when targetReg = op1Reg, and otherwise one mov targetReg, op1Reg
\* immediately followed by the operation; the operation has targetReg as
\* destination and only op2Reg (and op3Reg) as sources.  A table-driven
\* 2-operand operation that is not RMW emits no move.
C6_TableDrivenRMW ==
    (node.tableDriven /\ Emission /\ node.numOperands \in {2, 3}) =>
        LET n == node
            ins == lookupIns(n.id, n.baseType)
            operation ==
                IF n.numOperands = 2
                THEN emitIns_R_R(ins, emitSize(n), n.targetReg, op2Reg(n), opt(n))
                ELSE emitIns_R_R_R(ins, emitSize(n), n.targetReg, op2Reg(n), op3Reg(n), opt(n))
            move == emitIns_R_R("INS_mov", emitSize(n), n.targetReg, op1Reg(n), "INS_OPTS_NONE")
        IN  /\ (n.isRMW /\ n.targetReg = op1Reg(n)) => stream = <<operation>>
            /\ (n.isRMW /\ n.targetReg # op1Reg(n)) => stream = <<move, operation>>
            /\ ~n.isRMW =>
                    /\ n.numOperands = 2
                    /\ stream = <<emitIns_R_R_R(ins, emitSize(n), n.targetReg, op1Reg(n),
                                                op2Reg(n), opt(n))>>
                    /\ \A k \in 1 .. Len(stream) : stream[k].ins # "INS_mov"

\* C6 witness: a 3-operand RMW operation whose op1 is not in the target
\* register has emitted the move and the operation.
C6_Witness ==
    /\ node.tableDriven /\ pc = "done" /\ node.isRMW /\ node.numOperands = 3
    /\ node.targetReg # op1Reg(node)
    /\ Len(stream) = 2 /\ stream[1].ins = "INS_mov" /\ stream[2].ins = "INS_op"

\* C7: BitwiseSelect emits bsl target, op2, op3 when targetReg = op1Reg;
\* otherwise bif target, op3, op1 when targetReg = op2Reg; otherwise
\* bit target, op2, op1 when targetReg = op3Reg; otherwise mov target, op1
\* then bsl target, op2, op3.  That is 1, 1, 1 and 2 instructions, the first
\* matching case in the order op1, op2, op3 deciding.
C7_BitwiseSelectAliasing ==
    (node.id = "NI_AdvSimd_BitwiseSelect" /\ Emission) =>
        LET t == node.targetReg
            o1 == op1Reg(node)
            o2 == op2Reg(node)
            o3 == op3Reg(node)
            Shape == [k \in 1 .. Len(stream) |-> <<stream[k].ins, stream[k].regs>>]
        IN  /\ t = o1 => Shape = <<<<"INS_bsl", <<t, o2, o3>>>>>>
            /\ (t # o1 /\ t = o2) => Shape = <<<<"INS_bif", <<t, o3, o1>>>>>>
            /\ (t # o1 /\ t # o2 /\ t = o3) => Shape = <<<<"INS_bit", <<t, o2, o1>>>>>>
            /\ (t # o1 /\ t # o2 /\ t # o3) =>
                    Shape = <<<<"INS_mov", <<t, o1>>>>, <<"INS_bsl", <<t, o2, o3>>>>>>

\* C7 witness: the target aliases both op1 and op2, and one bsl was emitted.
C7_Witness ==
    /\ node.id = "NI_AdvSimd_BitwiseSelect" /\ pc = "done"
    /\ node.targetReg = op1Reg(node) /\ node.targetReg = op2Reg(node)
    /\ Len(stream) = 1 /\ stream[1].ins = "INS_bsl"

\* The fatal conditions C8 names.
RMWAliasingViolation(n) ==
    \/ /\ n.tableDriven
       /\ \/ n.numOperands = 2 /\ n.isRMW /\ n.targetReg = op2Reg(n)
          \/ n.numOperands = 3 /\ n.targetReg \in {op2Reg(n), op3Reg(n)}
    \/ /\ ~n.tableDriven /\ n.id = "NI_AdvSimd_Insert" /\ n.numOperands = 3
       /\ n.targetReg = op3Reg(n)

UnhandledId(n) == ~n.tableDriven /\ n.id \in {"NI_Illegal", "NI_Unlisted"}

\* An operation that generates multiple instructions comes to construct the
\* helper over a non-constant immediate.
MultiInsReachesHelper(n) ==
    /\ ~n.tableDriven /\ n.id \in ImmOpIds
    /\ ~n.immContained /\ n.multiIns
    /\ n.id = "NI_AdvSimd_Insert" => (InsertMove(n).ok /\ ~n.fltImmed)

Started == pc \notin {"start", "select"}

\* C8 as stated: under each of these conditions genHWIntrinsic halts on an
\* assertion with nothing emitted for the node and genProduceReg not reached.
C8_Original ==
    ((RMWAliasingViolation(node) \/ UnhandledId(node) \/ MultiInsReachesHelper(node))
     /\ Started) =>
        pc = "halted" /\ stream = <<>> /\ ~produced

\* C8 amended: genHWIntrinsic never reaches genProduceReg once it has halted.
\* An RMW aliasing violation and an unhandled id halt it with nothing emitted.
\* The multiple-instructions assertion is made in jump-table mode only (a
\* non-constant immediate whose upper bound is not 2); it halts Extract and
\* ExtractVector with nothing emitted, and Insert after its mov targetReg,
\* op1Reg, which is emitted when targetReg # op1Reg.  With upper bound 2
\* nothing is asserted and code generation runs on.
C8_FatalConditions ==
    /\ pc = "halted" => ~produced
    /\ ((RMWAliasingViolation(node) \/ UnhandledId(node)) /\ Started) =>
            pc = "halted" /\ stream = <<>>
    /\ (MultiInsReachesHelper(node) /\ node.upperBound # 2 /\ Started) =>
            /\ pc = "halted"
            /\ stream = Prefix
            /\ node.id # "NI_AdvSimd_Insert" => stream = <<>>
            /\ Len(stream) = IF node.id = "NI_AdvSimd_Insert" /\ node.targetReg # op1Reg(node)
                             THEN 1 ELSE 0
    /\ (MultiInsReachesHelper(node) /\ node.upperBound = 2) => pc # "halted"

\* C8 witness: Insert has halted on the multiple-instructions assertion with
\* its move already emitted.
C8_Witness ==
    /\ pc = "halted" /\ node.id = "NI_AdvSimd_Insert"
    /\ MultiInsReachesHelper(node) /\ node.upperBound # 2
    /\ Len(stream) = 1 /\ stream[1].ins = "INS_mov" /\ ~produced

ExtractVectorIds == {"NI_AdvSimd_ExtractVector64", "NI_AdvSimd_ExtractVector128"}

\* C9: every instruction ExtractVector64/128 emits for a lane index the
\* helper yields embeds genTypeSize(baseType) * laneIndex, takes the registers
\* (targetReg, op1Reg, op2Reg) and has the arrangement 8B (64-bit form) or 16B
\* (128-bit form), whatever the base type.
C9_ExtractVectorByteIndex ==
    (node.id \in ExtractVectorIds /\ helper.built) =>
        /\ \A j \in 1 .. Len(CaseSeq) :
            LET laneIndex == IF NonConstImmOp(helper) THEN j - 1 ELSE node.immConVal IN
            /\ CaseSeq[j].imm = genTypeSize(node.baseType) * laneIndex
            /\ CaseSeq[j].regs = <<node.targetReg, op1Reg(node), op2Reg(node)>>
            /\ CaseSeq[j].opt = IF node.id = "NI_AdvSimd_ExtractVector64"
                                THEN "INS_OPTS_8B" ELSE "INS_OPTS_16B"
        /\ LoopDone => Len(CaseSeq) >= 1

\* C9 witness: lane 2 of 8-byte elements embeds 16, and the arrangement is
\* 16B although the base type's own is 2D.
C9_Witness ==
    /\ node.id = "NI_AdvSimd_ExtractVector128" /\ node.baseType = "TYP_DOUBLE"
    /\ LoopDone /\ NonConstImmOp(helper)
    /\ Len(CaseSeq) = 3 /\ CaseSeq[3].imm = 16 /\ CaseSeq[3].opt = "INS_OPTS_16B"
    /\ opt(node) = "INS_OPTS_2D"

JumpTableDone == LoopDone /\ NonConstImmOp(helper) /\ ~TestImmOpZeroOrOne(helper)

\* The br of the dispatch code has just been executed.
AfterBr ==
    /\ pc = "exec" /\ cpu.trace # <<>>
    /\ Instructions(stream)[cpu.trace[Len(cpu.trace)]].ins = "INS_br"

\* The layout of a jump table whose dispatch shifts the run-time value left
\* by `shift` and whose cases lie `slots` instructions apart.
JumpTableLayout(shift, slots) ==
    /\ JumpTableDone =>
        /\ Instructions(LoopStream)[2].ins = "INS_add"
        /\ Instructions(LoopStream)[2].imm = shift
        /\ \A v \in 0 .. (helper.immUpperBound - 1) :
                InsAt(stream, LabelAddr(stream, helper.beginLabel) + slots * InsSize * v)
                    = CaseIns(node, v)
    /\ AfterBr => cpu.addr = LabelAddr(stream, helper.beginLabel) + cpu.v * Pow2(shift)

\* C10 as stated: the branch goes to beginLabel + (value << log2(4)), the
\* value times the 4-byte instruction width, every case is one instruction
\* slot, and the case for value i lies i slots after beginLabel.
C10_Original == JumpTableLayout(2, 1)

\* C10 amended: the branch goes to beginLabel + (value << 3), the value times
\* 8 bytes; every case but the last is two instruction slots, its instruction
\* and b endLabel, and the case for value i lies 2 * i slots after beginLabel.
C10_JumpTableLayout ==
    /\ JumpTableLayout(3, 2)
    /\ JumpTableDone =>
        \A v \in 0 .. (helper.immUpperBound - 2) :
            InsAt(stream, LabelAddr(stream, helper.beginLabel) + 2 * InsSize * v + InsSize)
                = emitIns_J("INS_b", helper.endLabel)

\* C10 witness: with value 2 the br has landed 16 bytes after beginLabel, on
\* the case for 2.
C10_Witness ==
    /\ AfterBr /\ cpu.v = 2
    /\ cpu.addr = LabelAddr(stream, helper.beginLabel) + 16
    /\ InsAt(stream, cpu.addr) = CaseIns(node, 2)

====
